---- MODULE Spec2Model ----
(***************************************************************************)
(* nobrainer/validate.py: validate_from_filepath (one volume / ground      *)
(* truth pair: existence check, load, predict, remap, per-class Dice) and  *)
(* validate_from_filepaths (the batch loop: derive the output paths,       *)
(* refuse to overwrite, save mean / variance / entropy, and after the loop *)
(* print and save the Dice vector).                                        *)
(*                                                                         *)
(* A path string is a sequence of tokens: "/" and "." are tokens of their  *)
(* own and every other token is a run of characters holding neither, so    *)
(* "volume.nii.gz" is <<"volume", ".", "nii", ".", "gz">>.  A number is a   *)
(* fraction <<numerator, denominator>> of naturals; <<0, 0>> is NaN.       *)
(***************************************************************************)
EXTENDS Integers, Sequences, FiniteSets, TLC

\* Longest batch of pairs handed to validate_from_filepaths.
MaxBatch == 2
\* Number of voxels of a volume, and the largest class count, in SpecDice.
NVox == 2
MaxClasses == 2

VARIABLES
    filepaths,              \* argument: the sequence of pairs
    returnVariance,         \* argument
    returnEntropy,          \* argument
    returnArrayFromImages,  \* argument
    n_samples,              \* argument
    n_classes,              \* argument
    emptyScore,             \* what dice_numpy returns on two all-false masks
    fs,                     \* the file system: existing path |-> content
    pc,                     \* position in validate_from_filepaths
    err,                    \* the exception the call ended with, or "none"
    idx,                    \* number of pairs the for loop has fetched
    bound,                  \* names of the loop's locals assigned so far
    filepath,               \* local: the current pair
    outputs,                \* local: what validate_from_filepath returned
    dice,                   \* local: the Dice vector of the current pair
    prediction_image,       \* validate_from_filepath's local (label array)
    y,                      \* validate_from_filepath's local (label array)
    meanPath, variancePath, entropyPath, dicePath,   \* locals
    trace                   \* every load, predict, save and print so far

vars == <<filepaths, returnVariance, returnEntropy, returnArrayFromImages,
          n_samples, n_classes, emptyScore, fs, pc, err, idx, bound, filepath,
          outputs, dice, prediction_image, y, meanPath, variancePath,
          entropyPath, dicePath, trace>>

Min(S) == CHOOSE m \in S : \A x \in S : m <= x
Max(S) == CHOOSE m \in S : \A x \in S : m >= x

----------------------------------------------------------------------------
(* pathlib.PurePath, as the code uses it. *)

\* The positions of token t in s.
Positions(s, t) == {i \in 1..Len(s) : s[i] = t}

\* Path(p).name: what follows the last "/".
Name(p) ==
    LET sl == Positions(p, "/")
    IN  IF sl = {} THEN p ELSE SubSeq(p, Max(sl) + 1, Len(p))

\* Path(p).parent: what precedes the last "/" (<<>> stands for ".").
Parent(p) ==
    LET sl == Positions(p, "/")
    IN  IF sl = {} THEN <<>> ELSE SubSeq(p, 1, Max(sl) - 1)

\* parent / name
Child(parent, name) ==
    IF parent = <<>> THEN name ELSE parent \o <<"/">> \o name

\* PurePath.stem: the name up to its last dot, unless that dot is the
\* first or the last character.
Stem(name) ==
    LET dots == Positions(name, ".")
        i    == IF dots = {} THEN 0 ELSE Max(dots)
    IN  IF 1 < i /\ i < Len(name) THEN SubSeq(name, 1, i - 1) ELSE name

\* name.lstrip('.')
RECURSIVE LStripDots(_)
LStripDots(name) ==
    IF name # <<>> /\ Head(name) = "." THEN LStripDots(Tail(name)) ELSE name

\* ['.' + s for s in name.split('.')[1:]], reading name from position from:
\* each suffix runs from a dot to just before the next one.
RECURSIVE SuffixList(_, _)
SuffixList(name, from) ==
    LET dots == {i \in from..Len(name) : name[i] = "."}
    IN  IF dots = {} THEN <<>>
        ELSE LET d     == Min(dots)
                 later == {i \in (d + 1)..Len(name) : name[i] = "."}
                 e     == IF later = {} THEN Len(name) + 1 ELSE Min(later)
             IN  <<SubSeq(name, d, e - 1)>> \o SuffixList(name, e)

\* PurePath.suffixes
Suffixes(name) ==
    IF name # <<>> /\ name[Len(name)] = "." THEN <<>>
    ELSE SuffixList(LStripDots(name), 1)

\* '.'.join(parts)
RECURSIVE JoinDot(_)
JoinDot(parts) ==
    IF parts = <<>> THEN <<>>
    ELSE IF Len(parts) = 1 THEN parts[1]
    ELSE parts[1] \o <<".">> \o JoinDot(Tail(parts))

\* outpath.parent / (outpath.stem + tag + '.' + suffixes)
VolumePath(p, tag) ==
    Child(Parent(p), Stem(Name(p)) \o <<tag, ".">> \o JoinDot(Suffixes(Name(p))))

MeanPath(p)     == VolumePath(p, "_mean")
VariancePath(p) == VolumePath(p, "_variance")
EntropyPath(p)  == VolumePath(p, "_entropy")

\* outpath.parent / (outpath.stem + '_dice.npy')
DicePath(p) == Child(Parent(p), Stem(Name(p)) \o <<"_dice", ".", "npy">>)

----------------------------------------------------------------------------
(* numpy and the collaborators of validate_from_filepath. *)

\* np.equal(arr, i): the boolean mask of the voxels labelled i.
Mask(arr, i) == [k \in 1..Len(arr) |-> arr[k] = i]

\* Number of true voxels of a mask.
CountTrue(m) == Cardinality({k \in 1..Len(m) : m[k]})

\* nobrainer.metrics.dice_numpy: 2|u & v| / (|u| + |v|); empty is its value
\* on two all-false masks.
DiceNumpy(u, v, empty) ==
    LET both  == Cardinality({k \in 1..Len(u) : u[k] /\ v[k]})
        total == CountTrue(u) + CountTrue(v)
    IN  IF total = 0 THEN empty ELSE <<2 * both, total>>

\* nobrainer.io.read_mapping(mapping_y): raw label 10c stands for class c.
ReadMapping == [raw \in {10 * c : c \in 0..MaxClasses} |-> raw \div 10]

\* nobrainer.volume.replace: substitute every value the mapping knows.
Replace(arr, mapping) ==
    [k \in 1..Len(arr) |->
        IF arr[k] \in DOMAIN mapping THEN mapping[arr[k]] ELSE arr[k]]

\* for i in range(n): dice[i] = dice_numpy(np.equal(pred, i), np.equal(yy, i)),
\* from step i on; d is the vector so far (d[i + 1] is the code's dice[i]).
RECURSIVE DiceLoop(_, _, _, _, _, _)
DiceLoop(d, i, pred, yy, n, empty) ==
    IF i >= n THEN d
    ELSE DiceLoop([d EXCEPT ![i + 1] = DiceNumpy(Mask(pred, i), Mask(yy, i), empty)],
                  i + 1, pred, yy, n, empty)

\* Mutation: the loop starts at class 1.
DiceVectorSkipsClassZero(pred, yy, n, empty) ==
    DiceLoop([k \in 1..n |-> <<0, 1>>], 1, pred, yy, n, empty)

\* dice = np.zeros(n_classes), then the loop.
DiceVector(pred, yy, n, empty) ==
    DiceLoop([k \in 1..n |-> <<0, 1>>], 0, pred, yy, n, empty)

\* a/b + c/d
AddFrac(p, q) == <<p[1] * q[2] + q[1] * p[2], p[2] * q[2]>>

RECURSIVE SumFrac(_)
SumFrac(d) == IF d = <<>> THEN <<0, 1>> ELSE AddFrac(Head(d), SumFrac(Tail(d)))

\* np.mean(d): NaN for an empty vector.
Mean(d) ==
    IF d = <<>> THEN <<0, 0>> ELSE <<SumFrac(d)[1], SumFrac(d)[2] * Len(d)>>

----------------------------------------------------------------------------
(* The files and pairs of the runs explored. *)

Vol1   == <<"volume", ".", "nii", ".", "gz">>
Vol2   == <<"data", "/", "scan", ".", "nii">>
Gt     == <<"data", "/", "labels", ".", "nii">>
Marker == <<"data", "/", "pair">>

\* A pair as the docstring describes it: a tuple (volume, ground truth).
TuplePair(v, g) == [kind |-> "tuple", fspath |-> <<>>, vol |-> v, gt |-> g]
\* A pair that is also an os.PathLike: Path() accepts it, reading fspath.
PathLikePair(f, v, g) == [kind |-> "pathlike", fspath |-> f, vol |-> v, gt |-> g]
NoPair == [kind |-> "none", fspath |-> <<>>, vol |-> <<>>, gt |-> <<>>]

Pairs == {TuplePair(Vol1, Gt), PathLikePair(Vol1, Vol1, Gt),
          PathLikePair(Vol2, Vol2, Gt), PathLikePair(Marker, Vol1, Gt)}

InputFiles  == {Vol1, Vol2, Gt, Marker}
OutputFiles == UNION {{MeanPath(v), VariancePath(v), EntropyPath(v), DicePath(v)} :
                      v \in {Vol1, Vol2}}

\* The labels the predictor's mean prediction holds for a volume, and the raw
\* labels a ground truth file holds.
PredictedLabels(v) == IF v = Vol1 THEN <<0, 1>> ELSE <<1, 1>>
RawLabels(g) == <<0, 10>>

\* File contents.
Orig         == [kind |-> "orig",  iter |-> 0, out |-> 0, dice |-> <<>>]
NoContent    == [kind |-> "none",  iter |-> 0, out |-> 0, dice |-> <<>>]
Image(k, j)  == [kind |-> "image", iter |-> k, out |-> j, dice |-> <<>>]
DiceFile(k, d) == [kind |-> "dice", iter |-> k, out |-> 0, dice |-> d]
Number(x)    == [kind |-> "number", iter |-> 0, out |-> 0, dice |-> <<x>>]

Event(op, k, path, content, existed) ==
    [op |-> op, iter |-> k, path |-> path, content |-> content, existed |-> existed]

\* The file system with content written at path; the other files stay.
WriteFile(fsys, path, content) ==
    [q \in DOMAIN fsys \cup {path} |-> IF q = path THEN content ELSE fsys[q]]

IsFile(fsys, path) == path \in DOMAIN fsys

----------------------------------------------------------------------------
(* validate_from_filepaths: the loop body's decisions. *)

\* Mutation: the sample count is not consulted.
IncludeVarianceIgnoresSamples(n, rv) == rv

\* includeVariance = ((n_samples > 1) and (returnVariance))
IncludeVariance(n, rv) == n > 1 /\ rv

\* The four paths derived from filepath[0].
DerivedPaths(p) ==
    [mean |-> MeanPath(p), variance |-> VariancePath(p),
     entropy |-> EntropyPath(p), dice |-> DicePath(p)]

\* Mutation: only the mean target is looked at.
AnyTargetExistsMeanOnly(fsys, paths) == IsFile(fsys, paths.mean)

\* Mutation: no target is looked at.
AnyTargetExistsNever(fsys, paths) == FALSE

\* meanPath.is_file() or variancePath.is_file() or entropyPath.is_file()
AnyTargetExists(fsys, paths) ==
    IsFile(fsys, paths.mean) \/ IsFile(fsys, paths.variance)
        \/ IsFile(fsys, paths.entropy)

SaveOutput(j, path) == [op |-> "save", out |-> j, path |-> path]
SaveDice(path)      == [op |-> "npsave", out |-> 0, path |-> path]

\* Mutation: the else branch writes the entropy path only on request.
SecondarySavesOnRequest(iv, re, paths) ==
    IF iv /\ re THEN <<SaveOutput(1, paths.variance), SaveOutput(2, paths.entropy)>>
    ELSE IF iv THEN <<SaveOutput(1, paths.variance)>>
    ELSE IF re THEN <<SaveOutput(1, paths.entropy)>>
    ELSE <<>>

\* The if / elif / else under "if not returnArrayFromImages".
SecondarySaves(iv, re, paths) ==
    IF iv /\ re THEN <<SaveOutput(1, paths.variance), SaveOutput(2, paths.entropy)>>
    ELSE IF iv THEN <<SaveOutput(1, paths.variance)>>
    ELSE <<SaveOutput(1, paths.entropy)>>

\* Mutation: np.save(dicePath, dice) indented into the loop body.
LoopBodySavesWithDice(paths, raf, iv, re) ==
    <<SaveOutput(0, paths.mean)>>
        \o (IF ~raf
            THEN IF iv /\ re
                 THEN <<SaveOutput(1, paths.variance), SaveOutput(2, paths.entropy)>>
                 ELSE IF iv THEN <<SaveOutput(1, paths.variance)>>
                 ELSE <<SaveOutput(1, paths.entropy)>>
            ELSE <<>>)
        \o <<SaveDice(paths.dice)>>

\* The saves of one pass through the loop body, in order.
LoopBodySaves(paths, raf, iv, re) ==
    <<SaveOutput(0, paths.mean)>>
        \o (IF ~raf THEN SecondarySaves(iv, re, paths) ELSE <<>>)

\* Runs saves in order for iteration k on file system fsys with trace evs:
\* outputs[j] past the end of outs raises IndexError and ends the run.
RECURSIVE RunSaves(_, _, _, _, _, _)
RunSaves(fsys, evs, saves, outs, d, k) ==
    IF saves = <<>> THEN [fs |-> fsys, trace |-> evs, ok |-> TRUE]
    ELSE LET s == Head(saves)
             c == IF s.op = "npsave" THEN DiceFile(k, d) ELSE outs[s.out + 1]
         IN  IF s.op = "save" /\ s.out >= Len(outs)
             THEN [fs |-> fsys, trace |-> evs, ok |-> FALSE]
             ELSE RunSaves(WriteFile(fsys, s.path, c),
                           Append(evs, Event(s.op, k, s.path, c, IsFile(fsys, s.path))),
                           Tail(saves), outs, d, k)

\* Mutation: every local counts as assigned.
IsBoundAlways(name, names) == TRUE

\* Whether a local of validate_from_filepaths has been assigned.
IsBound(name, names) == name \in names

Raise(e) == pc' = "error" /\ err' = e

----------------------------------------------------------------------------
(* The state after the call's arguments are bound. *)

Batches == UNION {[1..n -> Pairs] : n \in 0..MaxBatch}

\* At most one input file is missing and at most one output file is there.
InitialFiles ==
    {(InputFiles \ gone) \cup there :
        gone \in {{}} \cup {{f} : f \in InputFiles},
        there \in {{}} \cup {{f} : f \in OutputFiles}}

LocalsInit ==
    /\ err = "none"
    /\ idx = 0
    /\ bound = {}
    /\ filepath = NoPair
    /\ outputs = <<>>
    /\ dice = <<>>
    /\ meanPath = <<>>
    /\ variancePath = <<>>
    /\ entropyPath = <<>>
    /\ dicePath = <<>>
    /\ trace = <<>>

Init ==
    /\ filepaths \in Batches
    /\ returnVariance \in BOOLEAN
    /\ returnEntropy \in BOOLEAN
    /\ returnArrayFromImages \in BOOLEAN
    /\ n_samples \in {1, 2}
    /\ n_classes = 2
    /\ emptyScore = <<1, 1>>
    /\ fs \in {[f \in files |-> Orig] : files \in InitialFiles}
    /\ prediction_image = <<>>
    /\ y = <<>>
    /\ pc = "loop"
    /\ LocalsInit

argVars == <<filepaths, returnVariance, returnEntropy, returnArrayFromImages,
          n_samples, n_classes, emptyScore>>
pathVars == <<meanPath, variancePath, entropyPath, dicePath>>

----------------------------------------------------------------------------
(* One pass of "for filepath in filepaths": the call of                    *)
(* validate_from_filepath (lines 121-133, running lines 57-81).            *)

Validate ==
    /\ pc = "loop"
    /\ idx < Len(filepaths)
    /\ LET fp == filepaths[idx + 1]
           k  == idx + 1
           loadVol == Event("load", k, fp.vol, NoContent, FALSE)
           loadGt  == Event("load", k, fp.gt, NoContent, FALSE)
           predict == Event("predict", k, fp.vol, NoContent, FALSE)
       IN  /\ idx' = k
           /\ filepath' = fp
           /\ IF fp.kind # "pathlike"
              THEN \* Path(filepath) on a tuple
                   /\ Raise("TypeError")
                   /\ UNCHANGED <<trace, outputs, dice, prediction_image, y>>
                   /\ bound' = bound \cup {"filepath"}
              ELSE IF ~IsFile(fs, fp.fspath)
              THEN /\ Raise("FileNotFoundError")
                   /\ UNCHANGED <<trace, outputs, dice, prediction_image, y>>
                   /\ bound' = bound \cup {"filepath"}
              ELSE IF ~IsFile(fs, fp.vol)
              THEN \* nib.load(filepath[0])
                   /\ Raise("FileNotFoundError")
                   /\ UNCHANGED <<trace, outputs, dice, prediction_image, y>>
                   /\ bound' = bound \cup {"filepath"}
              ELSE IF ~IsFile(fs, fp.gt)
              THEN \* nib.load(filepath[1])
                   /\ Raise("FileNotFoundError")
                   /\ trace' = Append(trace, loadVol)
                   /\ UNCHANGED <<outputs, dice, prediction_image, y>>
                   /\ bound' = bound \cup {"filepath"}
              ELSE \E outLen \in 0..3 :
                   IF outLen = 0
                   THEN \* _predict raises
                        /\ Raise("PredictError")
                        /\ trace' = trace \o <<loadVol, loadGt, predict>>
                        /\ UNCHANGED <<outputs, dice, prediction_image, y>>
                        /\ bound' = bound \cup {"filepath"}
                   ELSE /\ outputs' = [j \in 1..outLen |-> Image(k, j - 1)]
                        /\ prediction_image' = PredictedLabels(fp.vol)
                        /\ y' = Replace(RawLabels(fp.gt), ReadMapping)
                        /\ dice' = DiceVector(prediction_image', y', n_classes, emptyScore)
                        /\ trace' = trace \o <<loadVol, loadGt, predict>>
                        /\ bound' = bound \cup {"filepath", "outputs", "dice"}
                        /\ pc' = "persist"
                        /\ err' = err
    /\ UNCHANGED <<argVars, fs, pathVars>>

\* The rest of the loop body (lines 136-155).
Persist ==
    /\ pc = "persist"
    /\ LET derived == DerivedPaths(filepath.vol)
           iv      == IncludeVariance(n_samples, returnVariance)
           saves   == LoopBodySaves(derived, returnArrayFromImages, iv, returnEntropy)
           run     == RunSaves(fs, trace, saves, outputs, dice, idx)
       IN  /\ meanPath' = derived.mean
           /\ variancePath' = derived.variance
           /\ entropyPath' = derived.entropy
           /\ dicePath' = derived.dice
           /\ bound' = bound \cup {"meanPath", "variancePath", "entropyPath", "dicePath"}
           /\ IF AnyTargetExists(fs, derived)
              THEN /\ Raise("AlreadyExists")
                   /\ UNCHANGED <<fs, trace>>
              ELSE /\ fs' = run.fs
                   /\ trace' = run.trace
                   /\ IF run.ok
                      THEN pc' = "loop" /\ err' = err
                      ELSE Raise("IndexError")
    /\ UNCHANGED <<argVars, idx, filepath, outputs, dice, prediction_image, y>>

\* After the loop (lines 157-159).
Final ==
    /\ pc = "loop"
    /\ idx = Len(filepaths)
    /\ IF /\ IsBound("filepath", bound)
          /\ IsBound("dice", bound)
          /\ IsBound("dicePath", bound)
       THEN LET summary == <<Event("print", idx, filepath.vol, NoContent, FALSE),
                             Event("print", idx, <<>>, Number(Mean(dice)), FALSE)>>
                run == RunSaves(fs, trace \o summary, <<SaveDice(dicePath)>>,
                                outputs, dice, idx)
            IN  /\ fs' = run.fs
                /\ trace' = run.trace
                /\ pc' = "done"
                /\ err' = err
       ELSE /\ Raise("UnboundLocalError")
            /\ UNCHANGED <<fs, trace>>
    /\ UNCHANGED <<argVars, idx, bound, filepath, outputs, dice, prediction_image, y,
                   pathVars>>

Next == Validate \/ Persist \/ Final

Spec == Init /\ [][Next]_vars

----------------------------------------------------------------------------
(* The Dice computation of validate_from_filepath on its own: every        *)
(* prediction and ground truth of NVox voxels, every class count.          *)

LabelArrays(values) == [1..NVox -> values]

InitDice ==
    /\ prediction_image \in LabelArrays(0..MaxClasses)
    /\ y \in LabelArrays(DOMAIN ReadMapping)
    /\ n_classes \in 0..MaxClasses
    /\ emptyScore \in {<<0, 1>>, <<1, 1>>}
    /\ filepaths = <<>>
    /\ returnVariance = FALSE
    /\ returnEntropy = FALSE
    /\ returnArrayFromImages = FALSE
    /\ n_samples = 1
    /\ fs = [f \in {} |-> Orig]
    /\ pc = "remap"
    /\ LocalsInit

\* Lines 74-81, from the loaded ground truth and the mean prediction on.
ComputeDice ==
    /\ pc = "remap"
    /\ y' = Replace(y, ReadMapping)
    /\ dice' = DiceVector(prediction_image, y', n_classes, emptyScore)
    /\ bound' = bound \cup {"dice"}
    /\ pc' = "returned"
    /\ UNCHANGED <<filepaths, returnVariance, returnEntropy, returnArrayFromImages,
                   n_samples, n_classes, emptyScore, fs, err, idx, filepath,
                   outputs, prediction_image, pathVars, trace>>

NextDice == ComputeDice

SpecDice == InitDice /\ [][NextDice]_vars

----------------------------------------------------------------------------
(* Properties. *)

\* Positions of the trace's events of kind op.
EventsOf(op) == {i \in 1..Len(trace) : trace[i].op = op}
\* Positions of the trace's events of iteration k.
EventsIn(k) == {i \in 1..Len(trace) : trace[i].iter = k}
\* Positions of the writes (nib.save and np.save).
Writes == EventsOf("save") \cup EventsOf("npsave")

\* Iteration k ran its whole loop body.
Completed(k) == k < idx \/ (k = idx /\ pc \in {"loop", "done"})

\* 2|P & G| / (|P| + |G|) for the voxels P predicted as class c and the
\* voxels G labelled c, stated on sets of voxels.
Overlap(pred, yy, c, empty) ==
    LET P == {k \in 1..Len(pred) : pred[k] = c}
        G == {k \in 1..Len(yy) : yy[k] = c}
    IN  IF P \cup G = {} THEN empty
        ELSE <<2 * Cardinality(P \cap G), Cardinality(P) + Cardinality(G)>>

InUnitInterval(x) == x[2] > 0 /\ 0 <= x[1] /\ x[1] <= x[2]

\* The Dice vector of a pair of the batch, stated on sets of voxels.
PairDice(pair) ==
    [c \in 1..n_classes |->
        Overlap(PredictedLabels(pair.vol),
                [k \in 1..Len(RawLabels(pair.gt)) |-> RawLabels(pair.gt)[k] \div 10],
                c - 1, emptyScore)]

\* C1: for the input volume.nii.gz the derived paths are exactly
\* volume_mean.nii.gz, volume_variance.nii.gz, volume_entropy.nii.gz and
\* volume_dice.npy.
C1_DerivedPathsAsSpecified ==
    (filepath.vol = Vol1 /\ IsBound("dicePath", bound)) =>
        /\ meanPath = <<"volume", "_mean", ".", "nii", ".", "gz">>
        /\ variancePath = <<"volume", "_variance", ".", "nii", ".", "gz">>
        /\ entropyPath = <<"volume", "_entropy", ".", "nii", ".", "gz">>
        /\ dicePath = <<"volume", "_dice", ".", "npy">>

\* C2: once validate_from_filepath has been called on a pair whose volume
\* path names no existing file, the call has ended in a file-not-found error
\* and nothing was loaded, predicted or written for that pair.
C2_MissingVolumeIsFileNotFound ==
    (idx >= 1 /\ ~IsFile(fs, filepaths[idx].vol)) =>
        /\ pc = "error"
        /\ err = "FileNotFoundError"
        /\ EventsIn(idx) = {}

\* C3: a step from the point where a pair's outputs are about to be written,
\* with one of its mean, variance or entropy targets already there, raises
\* "already exists" and writes nothing; and once the call has raised nothing
\* more happens, so no later pair is processed.
C3_ExistingTargetAborts ==
    [][/\ (/\ pc = "persist"
           /\ \E tag \in {"_mean", "_variance", "_entropy"} :
                  VolumePath(filepath.vol, tag) \in DOMAIN fs)
          => (pc' = "error" /\ err' = "AlreadyExists" /\ fs' = fs /\ trace' = trace)
       /\ pc = "error" => UNCHANGED vars]_vars

C3_Witness ==
    /\ pc = "error"
    /\ err = "AlreadyExists"
    /\ idx = 1
    /\ Len(filepaths) = 2
    /\ IsFile(fs, entropyPath)
    /\ ~IsFile(fs, meanPath)
    /\ EventsIn(1) \cap Writes = {}

\* C4: no write of the call, of a mean, variance or entropy volume or of the
\* Dice vector, lands on a path where a file already exists.
C4_NoWriteOnExistingFile ==
    \A i \in Writes : ~trace[i].existed

\* C5: with n_samples not greater than 1 nothing is ever written at the
\* variance path of any pair of the batch, whatever the flags.
C5_NoVarianceWithoutSamples ==
    n_samples <= 1 =>
        \A k \in 1..Len(filepaths) :
            /\ \A i \in Writes : trace[i].path # VariancePath(filepaths[k].vol)
            /\ IsFile(fs, VariancePath(filepaths[k].vol))
                   => fs[VariancePath(filepaths[k].vol)] = Orig

C5_Witness ==
    /\ pc = "done"
    /\ n_samples = 1
    /\ returnVariance
    /\ ~returnArrayFromImages
    /\ Len(filepaths) = 2
    /\ \E i \in EventsOf("save") : trace[i].iter = 2 /\ trace[i].content.out = 1

\* C6: no Dice file is written before the call has completed; a completed
\* call has written exactly one, as its last action, at the Dice path of the
\* last pair and holding the last pair's Dice vector, and has printed only
\* the last pair's volume and the mean of that vector.
C6_DiceSavedOnceAtTheEnd ==
    /\ pc # "done" => (EventsOf("npsave") = {} /\ EventsOf("print") = {})
    /\ pc = "done" =>
        /\ Len(filepaths) >= 1
        /\ idx = Len(filepaths)
        /\ \A k \in 1..Len(filepaths) : Completed(k)
        /\ LET last == filepaths[Len(filepaths)]
               n    == Len(trace)
           IN  /\ n >= 3
               /\ EventsOf("npsave") = {n}
               /\ EventsOf("print") = {n - 2, n - 1}
               /\ trace[n - 2].path = last.vol
               /\ trace[n - 1].content = Number(Mean(PairDice(last)))
               /\ trace[n].path = DicePath(last.vol)
               /\ trace[n].content = DiceFile(Len(filepaths), PairDice(last))
               /\ fs[DicePath(last.vol)] = DiceFile(Len(filepaths), PairDice(last))
               /\ \A q \in DOMAIN fs : fs[q].kind = "dice" => q = DicePath(last.vol)

C6_Witness ==
    /\ pc = "done"
    /\ Len(filepaths) = 2
    /\ filepaths[1].vol # filepaths[2].vol
    /\ PairDice(filepaths[1]) # PairDice(filepaths[2])
    /\ ~IsFile(fs, DicePath(filepaths[1].vol))
    /\ fs[DicePath(filepaths[2].vol)].dice = PairDice(filepaths[2])

\* C7: the Dice vector validate_from_filepath returns has n_classes entries,
\* entry i is the overlap of the masks (prediction == i) and (remapped ground
\* truth == i), and every entry lies in [0, 1], also for a class absent from
\* both.
C7_DiceVectorPerClass ==
    pc = "returned" =>
        /\ Len(dice) = n_classes
        /\ \A c \in 0..(n_classes - 1) :
               /\ dice[c + 1] = Overlap(prediction_image, y, c, emptyScore)
               /\ InUnitInterval(dice[c + 1])

C7_Witness ==
    /\ pc = "returned"
    /\ n_classes = 2
    /\ dice[1] = <<2, 3>>
    /\ \A k \in 1..NVox : prediction_image[k] # 1 /\ y[k] # 1
    /\ dice[2] = emptyScore

\* C8: with returnArrayFromImages false, every iteration that ran its whole
\* loop body wrote the entropy path when variance was not includable,
\* whether or not entropy was requested; when variance was includable it
\* wrote the variance path, and the entropy path iff entropy was requested.
C8_SecondaryVolumeSelection ==
    ~returnArrayFromImages =>
        \A k \in 1..idx : Completed(k) =>
            LET wroteVariance ==
                    \E i \in EventsOf("save") \cap EventsIn(k) :
                        trace[i].path = VariancePath(filepaths[k].vol)
                wroteEntropy ==
                    \E i \in EventsOf("save") \cap EventsIn(k) :
                        trace[i].path = EntropyPath(filepaths[k].vol)
            IN  IF n_samples > 1 /\ returnVariance
                THEN wroteVariance /\ (wroteEntropy <=> returnEntropy)
                ELSE wroteEntropy

C8_Witness ==
    /\ pc = "done"
    /\ ~returnArrayFromImages
    /\ ~returnEntropy
    /\ ~returnVariance
    /\ IsFile(fs, entropyPath)
    /\ fs[entropyPath] = Image(idx, 1)

\* C9: when the call has failed on item N, every volume written for items
\* 1..N-1 is still on disk with the content written for it.
C9_NoRollback ==
    pc = "error" =>
        \A i \in EventsOf("save") :
            trace[i].iter < idx =>
                /\ IsFile(fs, trace[i].path)
                /\ fs[trace[i].path] = trace[i].content

C9_Witness ==
    /\ pc = "error"
    /\ idx = 2
    /\ \E i \in EventsOf("save") :
           /\ trace[i].iter = 1
           /\ fs[trace[i].path] = Image(1, trace[i].content.out)
    /\ \E i \in EventsOf("save") : trace[i].iter = 2

\* C10: a call with an empty sequence of pairs predicts nothing and writes
\* nothing, and does not return normally: it is either still before the code
\* after the loop, or has ended there in the unbound-local error.
C10_EmptyBatchRaises ==
    filepaths = <<>> =>
        /\ trace = <<>>
        /\ \A q \in DOMAIN fs : fs[q] = Orig
        /\ \/ pc = "loop" /\ err = "none" /\ ENABLED Final
           \/ pc = "error" /\ err = "UnboundLocalError"

C10_Witness ==
    /\ filepaths = <<>>
    /\ pc = "error"
    /\ err = "UnboundLocalError"
    /\ trace = <<>>

============================================================================
